---- MODULE Spec2Model ----
(***************************************************************************)
(* Model of the school timetable scheduler: SchoolScheduler (solver.py)   *)
(* and the query block of the Streamlit front end (app.py).               *)
(*                                                                         *)
(* One behaviour is one scheduling request: the constructor builds the    *)
(* decision variables and the hard constraints, solve() runs the CP-SAT   *)
(* engine and decodes its assignment, and the front end may pivot the     *)
(* returned table for one class or one teacher.                           *)
(*                                                                         *)
(* Indices are 0-based as in the source: course index c_idx in            *)
(* 0..len(courses)-1, day d in 0..days-1, period p in 0..periods-1.       *)
(* Column names of the DataFrame are transliterated: class, weekday,      *)
(* period, subject, teacher.                                              *)
(***************************************************************************)
EXTENDS Integers, Sequences, FiniteSets

(* ------------------------------ bounds -------------------------------- *)

\* longest requirement list drawn as input
MaxCourses == 2
\* largest 'hours' value of one requirement (0 is drawn too)
MaxHours == 2
\* most days of a week drawn (days_map names five)
MaxDays == 6
\* most periods of a day drawn
MaxPeriods == 2
\* largest grid: days * periods <= MaxSlots
MaxSlots == 6

(* --------------------------- input domains ---------------------------- *)

Classes == {"101", "102"}
Teachers == {"A", "B"}
Subjects == {"", "Math"}

\* Python's string order on the identifiers the model draws
StrRank == [s \in Classes \cup Teachers \cup Subjects |->
              CASE s = "" -> 0
                [] s = "101" -> 1
                [] s = "102" -> 2
                [] s = "A" -> 3
                [] s = "B" -> 4
                [] OTHER -> 5]

CourseRecords == [class : Classes, teacher : Teachers, subject : Subjects,
                  hours : 0..MaxHours]

CourseLists == UNION {[1..n -> CourseRecords] : n \in 0..MaxCourses}

(* ------------------------ CP-SAT status values ------------------------- *)

UNKNOWN == "UNKNOWN"
MODEL_INVALID == "MODEL_INVALID"
FEASIBLE == "FEASIBLE"
INFEASIBLE == "INFEASIBLE"
OPTIMAL == "OPTIMAL"
Statuses == {UNKNOWN, MODEL_INVALID, FEASIBLE, INFEASIBLE, OPTIMAL}

(* ------------------------------- state --------------------------------- *)

VARIABLES
  pc,            \* position of the request: new, ready, solved, done, queried
  courses,       \* self.courses
  days,          \* self.days
  periods,       \* self.periods
  all_teachers,  \* self.all_teachers (sorted list)
  all_classes,   \* self.all_classes (sorted list)
  vars,          \* self.vars: the keys (c_idx, d, p) of the BoolVars
  constraints,   \* the linear constraints added to self.model
  status,        \* what self.solver.Solve returned ("none" before the call)
  assignment,    \* self.solver.Value: the keys whose BoolVar is 1
  schedule_data, \* the list _format_solution appends to
  outcome,       \* how solve() ended: pending, timetable, none, KeyError
  result,        \* the DataFrame solve() returned (rows in order)
  report,        \* what the run tells the user: "", "found", "Infeasible"
  query,         \* the pivot query of the front end: <<query_type, target>>
  pivot_outcome, \* none, table, ValueError
  pivot_df       \* the pivot table: cell -> subject

state == <<pc, courses, days, periods, all_teachers, all_classes, vars,
           constraints, status, assignment, schedule_data, outcome, result,
           report, query, pivot_outcome, pivot_df>>

(* ------------------------------ helpers -------------------------------- *)

Range(s) == {s[i] : i \in DOMAIN s}

\* sorted(list(set(...))): the distinct strings in increasing order
RECURSIVE SortedList(_)
SortedList(S) ==
  IF S = {} THEN <<>>
  ELSE LET m == CHOOSE x \in S : \A y \in S : StrRank[x] <= StrRank[y]
       IN <<m>> \o SortedList(S \ {m})

\* range(days) x range(periods)
Slots(D, P) == (0..(D - 1)) \X (0..(P - 1))

(* ------------------------- _create_variables --------------------------- *)

create_variables(cs, D, P) ==
  {<<c_idx, d, p>> : c_idx \in 0..(Len(cs) - 1), d \in 0..(D - 1), p \in 0..(P - 1)}

(* ------------------------ _add_hard_constraints ------------------------ *)

\* A constraint is sum(vars) op rhs with op "eq" (==) or "le" (<=).

\* variant: the hour total as an upper limit only
HourConstraints_le(cs, D, P) ==
  {[vars |-> {<<c_idx, sl[1], sl[2]>> : sl \in Slots(D, P)},
    op |-> "le",
    rhs |-> cs[c_idx + 1].hours] : c_idx \in 0..(Len(cs) - 1)}

\* constraint A: every course is placed exactly 'hours' times
HourConstraints(cs, D, P) ==
  {[vars |-> {<<c_idx, sl[1], sl[2]>> : sl \in Slots(D, P)},
    op |-> "eq",
    rhs |-> cs[c_idx + 1].hours] : c_idx \in 0..(Len(cs) - 1)}

class_course_indices(cs, cls) ==
  {i \in 0..(Len(cs) - 1) : cs[i + 1].class = cls}

\* variant: the class limit off by one
ClassConstraints_two(cs, D, P, classes) ==
  {[vars |-> {<<idx, sl[1], sl[2]>> : idx \in class_course_indices(cs, cls)},
    op |-> "le",
    rhs |-> 2] : cls \in Range(classes), sl \in Slots(D, P)}

\* constraint B: a class has at most one lesson in a slot
ClassConstraints(cs, D, P, classes) ==
  {[vars |-> {<<idx, sl[1], sl[2]>> : idx \in class_course_indices(cs, cls)},
    op |-> "le",
    rhs |-> 1] : cls \in Range(classes), sl \in Slots(D, P)}

\* variant: the teacher loop compares the class column
teacher_course_indices_class(cs, teacher) ==
  {i \in 0..(Len(cs) - 1) : cs[i + 1].class = teacher}

teacher_course_indices(cs, teacher) ==
  {i \in 0..(Len(cs) - 1) : cs[i + 1].teacher = teacher}

\* constraint C: a teacher has at most one lesson in a slot
TeacherConstraints(cs, D, P, teachers) ==
  {[vars |-> {<<idx, sl[1], sl[2]>> : idx \in teacher_course_indices(cs, teacher)},
    op |-> "le",
    rhs |-> 1] : teacher \in Range(teachers), sl \in Slots(D, P)}

\* variant: the class family is left out
add_hard_constraints_noclass(cs, D, P, classes, teachers) ==
  HourConstraints(cs, D, P) \cup TeacherConstraints(cs, D, P, teachers)

add_hard_constraints(cs, D, P, classes, teachers) ==
  HourConstraints(cs, D, P)
    \cup ClassConstraints(cs, D, P, classes)
    \cup TeacherConstraints(cs, D, P, teachers)

(* ----------------------------- the engine ------------------------------ *)

\* An assignment is the set of variables at 1; it satisfies a constraint when
\* the number of the constraint's variables in it is == rhs ("eq") or <= rhs
\* ("le").

\* a partial assignment can still be completed for this constraint: with
\* nothing undecided this is satisfaction itself
Possible(con, chosen, undecided) ==
  LET n == Cardinality(chosen \cap con.vars)
      m == Cardinality(undecided \cap con.vars)
  IN IF con.op = "eq" THEN n <= con.rhs /\ n + m >= con.rhs ELSE n <= con.rhs

\* every assignment of the variables that satisfies every constraint
\* (complete search, branching on one variable at a time)
RECURSIVE Search(_, _, _)
Search(undecided, chosen, cons) ==
  IF \E con \in cons : ~Possible(con, chosen, undecided) THEN {}
  ELSE IF undecided = {} THEN {chosen}
  ELSE LET v == CHOOSE x \in undecided : TRUE
       IN Search(undecided \ {v}, chosen \cup {v}, cons)
            \cup Search(undecided \ {v}, chosen, cons)

Solutions(vs, cons) == Search(vs, {}, cons)

(* -------------------------------- Init --------------------------------- *)

Init ==
  /\ pc = "new"
  /\ courses \in CourseLists
  /\ days \in 1..MaxDays
  /\ periods \in 1..MaxPeriods
  /\ days * periods <= MaxSlots
  /\ all_teachers = <<>>
  /\ all_classes = <<>>
  /\ vars = {}
  /\ constraints = {}
  /\ status = "none"
  /\ assignment = {}
  /\ schedule_data = <<>>
  /\ outcome = "pending"
  /\ result = <<>>
  /\ report = ""
  /\ query = <<>>
  /\ pivot_outcome = "none"
  /\ pivot_df = <<>>

(* ------------------------ SchoolScheduler.__init__ --------------------- *)

Construct ==
  /\ pc = "new"
  /\ pc' = "ready"
  /\ all_teachers' = SortedList({courses[i].teacher : i \in DOMAIN courses})
  /\ all_classes' = SortedList({courses[i].class : i \in DOMAIN courses})
  /\ vars' = create_variables(courses, days, periods)
  /\ constraints' = add_hard_constraints(courses, days, periods,
                                         all_classes', all_teachers')
  /\ UNCHANGED <<courses, days, periods, status, assignment, schedule_data,
                 outcome, result, report, query, pivot_outcome, pivot_df>>

(* --------------------- solve(): self.solver.Solve ---------------------- *)

\* The engine answers with a satisfying assignment (OPTIMAL or FEASIBLE),
\* with INFEASIBLE when there is none, or gives up (UNKNOWN, MODEL_INVALID).
SolverRun ==
  /\ pc = "ready"
  /\ pc' = "solved"
  /\ \/ \E a \in Solutions(vars, constraints) :
          /\ status' \in {OPTIMAL, FEASIBLE}
          /\ assignment' = a
     \/ /\ Solutions(vars, constraints) = {}
        /\ status' = INFEASIBLE
        /\ assignment' = {}
     \/ /\ status' \in {UNKNOWN, MODEL_INVALID}
        /\ assignment' = {}
  /\ UNCHANGED <<courses, days, periods, all_teachers, all_classes, vars,
                 constraints, schedule_data, outcome, result, report, query,
                 pivot_outcome, pivot_df>>

(* -------------------------- _format_solution --------------------------- *)

\* days_map = {0: ..., 4: ...}: Monday to Friday
days_map == [d \in 0..4 |-> <<"Mon", "Tue", "Wed", "Thu", "Fri">>[d + 1]]

\* f'... {p+1} ...': the 1-based period label
PeriodLabel(p) == <<"Period", p + 1>>

\* the k-th key (k from 0) the three nested loops visit
LoopKey(k, D, P) == <<k \div (D * P), (k % (D * P)) \div P, k % P>>

\* the keys at 1, in the order the loops visit them
TrueKeys(cs, D, P, a) ==
  SelectSeq([k \in 1..(Len(cs) * D * P) |-> LoopKey(k - 1, D, P)],
            LAMBDA key : key \in a)

\* the dict appended for one key; c_idx is not a column of the table: it
\* records the requirement the row was made from
Row(cs, key) ==
  [class |-> cs[key[1] + 1].class,
   period |-> PeriodLabel(key[3]),
   weekday |-> days_map[key[2]],
   subject |-> cs[key[1] + 1].subject,
   teacher |-> cs[key[1] + 1].teacher,
   Day_Index |-> key[2],
   Period_Index |-> key[3],
   c_idx |-> key[1]]

\* how many keys are appended before days_map[d] raises KeyError
\* (all of them when no lookup fails)
RECURSIVE Appended(_, _)
Appended(keys, n) ==
  IF n >= Len(keys) THEN n
  ELSE IF keys[n + 1][2] \notin DOMAIN days_map THEN n
  ELSE Appended(keys, n + 1)

\* variant: the class column is missing from the sort keys
RowLess_noclass(r1, r2) ==
  \/ r1.Day_Index < r2.Day_Index
  \/ /\ r1.Day_Index = r2.Day_Index
     /\ r1.Period_Index < r2.Period_Index

\* by=['class', 'Day_Index', 'Period_Index']
RowLess(r1, r2) ==
  \/ StrRank[r1.class] < StrRank[r2.class]
  \/ /\ r1.class = r2.class
     /\ \/ r1.Day_Index < r2.Day_Index
        \/ /\ r1.Day_Index = r2.Day_Index
           /\ r1.Period_Index < r2.Period_Index

\* insert r behind every row that is not greater (stable)
RECURSIVE Insert(_, _)
Insert(sorted, r) ==
  IF sorted = <<>> THEN <<r>>
  ELSE IF RowLess(r, Head(sorted)) THEN <<r>> \o sorted
  ELSE <<Head(sorted)>> \o Insert(Tail(sorted), r)

\* df.sort_values(by=[...]): a stable sort on several columns
RECURSIVE sort_values(_)
sort_values(rows) ==
  IF rows = <<>> THEN <<>>
  ELSE Insert(sort_values(SubSeq(rows, 1, Len(rows) - 1)), rows[Len(rows)])

\* df[['class', 'weekday', 'period', 'subject', 'teacher']]
Columns(rows) ==
  [i \in 1..Len(rows) |->
     [class |-> rows[i].class, weekday |-> rows[i].weekday,
      period |-> rows[i].period, subject |-> rows[i].subject,
      teacher |-> rows[i].teacher, c_idx |-> rows[i].c_idx]]

(* --------------------- solve(): the verdict branch --------------------- *)

\* variant: everything but INFEASIBLE is decoded
Decodes_notinfeasible(st) == st # INFEASIBLE

\* status == cp_model.OPTIMAL or status == cp_model.FEASIBLE
Decodes(st) == st = OPTIMAL \/ st = FEASIBLE

SolveReturn ==
  /\ pc = "solved"
  /\ pc' = "done"
  /\ IF Decodes(status)
     THEN LET keys == TrueKeys(courses, days, periods, assignment)
              n == Appended(keys, 0)
              rows == [i \in 1..n |-> Row(courses, keys[i])]
          IN /\ report' = "found"
             /\ schedule_data' = rows
             /\ IF n < Len(keys)
                THEN \* days_map[d] raised KeyError inside the loops
                     /\ outcome' = "KeyError"
                     /\ result' = <<>>
                ELSE IF rows = <<>>
                THEN \* a frame without rows has no column to sort by
                     /\ outcome' = "KeyError"
                     /\ result' = <<>>
                ELSE /\ outcome' = "timetable"
                     /\ result' = Columns(sort_values(rows))
     ELSE /\ report' = "Infeasible"
          /\ outcome' = "none"
          /\ UNCHANGED <<schedule_data, result>>
  /\ UNCHANGED <<courses, days, periods, all_teachers, all_classes, vars,
                 constraints, status, assignment, query, pivot_outcome,
                 pivot_df>>

(* ------------------------ app.py: the pivot view ----------------------- *)

\* variant: the filter is not applied
final_view_all(rows, query_type, target) == rows

\* result_df[result_df[column] == target]
final_view(rows, query_type, target) ==
  SelectSeq(rows, LAMBDA r : IF query_type = "class" THEN r.class = target
                                                     ELSE r.teacher = target)

\* the (index, column) pair a row goes to
Cell(r) == <<r.period, r.weekday>>

\* DataFrame.pivot raises ValueError when two rows share a cell
PivotCollides(view) ==
  \E i, j \in DOMAIN view : i # j /\ Cell(view[i]) = Cell(view[j])

days_order == {"Mon", "Tue", "Wed", "Thu", "Fri"}
periods_order == {<<"Period", i>> : i \in 1..9}

\* pivot, reindex to the labels present, fillna("")
pivot(view) ==
  LET existing_periods == {Cell(view[i])[1] : i \in DOMAIN view} \cap periods_order
      existing_days == {Cell(view[i])[2] : i \in DOMAIN view} \cap days_order
  IN [cell \in existing_periods \X existing_days |->
        IF \E i \in DOMAIN view : Cell(view[i]) = cell
        THEN view[CHOOSE i \in DOMAIN view : Cell(view[i]) = cell].subject
        ELSE ""]

Query ==
  /\ pc = "done"
  /\ outcome = "timetable"
  /\ pc' = "queried"
  /\ \E query_type \in {"class", "teacher"} :
       \E target \in IF query_type = "class"
                     THEN {result[i].class : i \in DOMAIN result}
                     ELSE {result[i].teacher : i \in DOMAIN result} :
         LET view == final_view(result, query_type, target)
         IN /\ query' = <<query_type, target>>
            /\ IF PivotCollides(view)
               THEN /\ pivot_outcome' = "ValueError"
                    /\ pivot_df' = <<>>
               ELSE /\ pivot_outcome' = "table"
                    /\ pivot_df' = pivot(view)
  /\ UNCHANGED <<courses, days, periods, all_teachers, all_classes, vars,
                 constraints, status, assignment, schedule_data, outcome,
                 result, report>>

Next == Construct \/ SolverRun \/ SolveReturn \/ Query

Spec == Init /\ [][Next]_state

(* ============================ properties =============================== *)

Finished == pc \in {"done", "queried"}

\* the rows of the returned table made from requirement c
EntriesOf(c) == {i \in DOMAIN result : result[i].c_idx = c}

\* the day index a weekday label stands for
DayIndexOf(label) == CHOOSE d \in DOMAIN days_map : days_map[d] = label

RECURSIVE SumHours(_, _)
SumHours(cs, idxs) ==
  IF idxs = {} THEN 0
  ELSE LET i == CHOOSE x \in idxs : TRUE
       IN cs[i + 1].hours + SumHours(cs, idxs \ {i})

\* some class or some teacher is asked for more hours than the grid has slots
OverCapacity ==
  \/ \E cls \in Classes :
       SumHours(courses, class_course_indices(courses, cls)) > days * periods
  \/ \E t \in Teachers :
       SumHours(courses, teacher_course_indices(courses, t)) > days * periods

\* what CourseCatalog validation would accept
ValidRequirement(c) ==
  c.hours >= 1 /\ c.class # "" /\ c.teacher # "" /\ c.subject # ""

ValidInput == \A i \in DOMAIN courses : ValidRequirement(courses[i])

\* C1 - Hour conformance: whenever solve() returns a timetable, every
\* requirement (by its index in the input list) has exactly 'hours' rows.
C1_HourConformance ==
  outcome = "timetable" =>
    \A c \in 0..(Len(courses) - 1) :
      Cardinality(EntriesOf(c)) = courses[c + 1].hours

\* a timetable for two requirements of 2 and 1 hours on a grid with room to spare
C1_Witness ==
  /\ outcome = "timetable"
  /\ Len(courses) = 2
  /\ courses[1].hours = 2
  /\ courses[2].hours = 1
  /\ days * periods > 3
  /\ Len(result) = 3

\* C2 - Class exclusivity: in a returned timetable no two rows of one class
\* share a (day, period) slot, whatever their teachers and subjects.
C2_ClassExclusivity ==
  outcome = "timetable" =>
    \A i, j \in DOMAIN result :
      (i # j /\ result[i].class = result[j].class) =>
        <<result[i].weekday, result[i].period>> # <<result[j].weekday, result[j].period>>

\* a timetable with two requirements of one class with different teachers
C2_Witness ==
  /\ outcome = "timetable"
  /\ Len(courses) = 2
  /\ courses[1].class = courses[2].class
  /\ courses[1].teacher # courses[2].teacher
  /\ courses[1].subject = courses[2].subject
  /\ courses[1].hours >= 1
  /\ courses[2].hours >= 1
  /\ Len(result) >= 2

\* C3 - Teacher exclusivity: in a returned timetable no two rows of one
\* teacher share a (day, period) slot.
C3_TeacherExclusivity ==
  outcome = "timetable" =>
    \A i, j \in DOMAIN result :
      (i # j /\ result[i].teacher = result[j].teacher) =>
        <<result[i].weekday, result[i].period>> # <<result[j].weekday, result[j].period>>

\* a timetable where one teacher teaches two classes
C3_Witness ==
  /\ outcome = "timetable"
  /\ Len(courses) = 2
  /\ courses[1].teacher = courses[2].teacher
  /\ courses[1].class # courses[2].class
  /\ courses[1].hours >= 1
  /\ courses[2].hours >= 1
  /\ Len(result) >= 2

\* C4 - Capacity necessity: when the hours of one class or of one teacher sum
\* to more than days * periods, the run ends with the infeasible outcome
\* (solve() returns None, "Infeasible" is reported) and no timetable.
C4_CapacityNecessity ==
  (Finished /\ OverCapacity) =>
    /\ outcome = "none"
    /\ result = <<>>
    /\ report = "Infeasible"

\* a finished run with INFEASIBLE where only the sum of two requirements,
\* not a single one, exceeds the grid
C4_Witness ==
  /\ pc = "done"
  /\ OverCapacity
  /\ status = INFEASIBLE
  /\ \A i \in DOMAIN courses : courses[i].hours <= days * periods
  /\ outcome = "none"

\* C5 - Fail-fast validation: a requirement with non-positive hours or an
\* empty class, teacher or subject is rejected before any decision variable
\* or constraint is created and never reaches the solver.
C5_FailFastValidation ==
  ~ValidInput =>
    /\ vars = {}
    /\ constraints = {}
    /\ status = "none"
    /\ outcome # "timetable"

\* C6 - Outcome distinction: what solve() hands back for a timeout (UNKNOWN)
\* or an internal error (MODEL_INVALID) differs from what it hands back for
\* INFEASIBLE, which is None together with the "Infeasible" report.
C6_OutcomeDistinction ==
  (Finished /\ status \in {UNKNOWN, MODEL_INVALID}) =>
    ~(outcome = "none" /\ report = "Infeasible")

\* C7 - Any positive configuration: with valid requirements and positive
\* days and periods, a feasible run returns a timetable with exactly one row
\* for every variable at 1, carrying its day label and 1-based period label.
C7_AnyPositiveConfiguration ==
  (Finished /\ status \in {OPTIMAL, FEASIBLE} /\ ValidInput /\ courses # <<>>
     /\ days >= 1 /\ periods >= 1) =>
    /\ outcome = "timetable"
    /\ \A key \in assignment :
         Cardinality({i \in DOMAIN result :
                        /\ result[i].c_idx = key[1]
                        /\ result[i].weekday = days_map[key[2]]
                        /\ result[i].period = <<"Period", key[3] + 1>>}) = 1
    /\ Len(result) = Cardinality(assignment)

\* C8 - Timetable ordering: the rows of a returned timetable are in strictly
\* increasing order of (class, day index, period index); the order is
\* strict, so it is fixed by the set of rows alone and not by the order of
\* the requirement list or of the solver's variables.
C8_TimetableOrdering ==
  outcome = "timetable" =>
    \A i, j \in DOMAIN result :
      i < j =>
        \/ StrRank[result[i].class] < StrRank[result[j].class]
        \/ /\ result[i].class = result[j].class
           /\ \/ DayIndexOf(result[i].weekday) < DayIndexOf(result[j].weekday)
              \/ /\ result[i].weekday = result[j].weekday
                 /\ result[i].period[2] < result[j].period[2]

\* a timetable whose requirements were listed with the later class first, so
\* that the sort had to move rows
C8_Witness ==
  /\ outcome = "timetable"
  /\ Len(courses) = 2
  /\ courses[1].class = "102"
  /\ courses[2].class = "101"
  /\ Len(result) >= 3
  /\ result[1].c_idx = 1
  /\ \E i \in DOMAIN result : i > 1 /\ result[i].c_idx = 0

\* C9 - Pivot soundness: for a returned timetable and any class or teacher
\* selected, the filtered rows put at most one row in each (period, day)
\* cell, so the pivot is built without a collision.
C9_PivotSoundness ==
  pc = "queried" =>
    /\ pivot_outcome = "table"
    /\ \A i, j \in DOMAIN result :
         (/\ i # j
          /\ IF query[1] = "class"
             THEN result[i].class = query[2] /\ result[j].class = query[2]
             ELSE result[i].teacher = query[2] /\ result[j].teacher = query[2]) =>
           <<result[i].period, result[i].weekday>> # <<result[j].period, result[j].weekday>>

\* a teacher view over two classes, with more than one filled cell and an
\* empty one
C9_Witness ==
  /\ pc = "queried"
  /\ query[1] = "teacher"
  /\ pivot_outcome = "table"
  /\ Cardinality({result[i].class : i \in {k \in DOMAIN result : result[k].teacher = query[2]}}) = 2
  /\ \E cell \in DOMAIN pivot_df : pivot_df[cell] = ""
  /\ \E cell \in DOMAIN pivot_df : pivot_df[cell] = "Math"

\* C10 - All-or-nothing result: rows are decoded only after the solver has
\* answered OPTIMAL or FEASIBLE; before the verdict and on every other
\* verdict nothing is decoded and solve() returns None; a returned timetable
\* is complete (one row per variable at 1).
C10_AllOrNothing ==
  /\ (pc \in {"new", "ready", "solved"}) =>
       (schedule_data = <<>> /\ result = <<>> /\ outcome = "pending")
  /\ (outcome \in {"timetable", "KeyError"} \/ schedule_data # <<>> \/ result # <<>>) =>
       status \in {OPTIMAL, FEASIBLE}
  /\ (Finished /\ status \notin {OPTIMAL, FEASIBLE}) =>
       (outcome = "none" /\ result = <<>> /\ schedule_data = <<>>)
  /\ result # <<>> =>
       (outcome = "timetable" /\ Len(result) = Cardinality(assignment))

\* a run the solver gave up on (UNKNOWN) although variables existed: nothing
\* is returned
C10_Witness ==
  /\ pc = "done"
  /\ status = UNKNOWN
  /\ vars # {}
  /\ \E i \in DOMAIN courses : courses[i].hours >= 1
  /\ outcome = "none"
  /\ result = <<>>

====
